---- MODULE Spec2Model ----
(***************************************************************************)
(* Model of src/src/agent/graph.py: the PowerPoint ReAct agent graph       *)
(* (llm node, ToolNode, should_continue), its three tools and the two      *)
(* sandbox executors execute_csharp_code and execute_reading_code.         *)
(*                                                                         *)
(* Strings built with f-strings are modelled as tuples of their parts,     *)
(* Optional[str] as a sequence of length 0 (None) or 1.                    *)
(***************************************************************************)
EXTENDS Integers, Sequences, FiniteSets, TLC

VARIABLES
    messages,        \* State.messages
    pptx_file_path,  \* State.pptx_file_path
    node,            \* the graph node that runs next; "direct" = a tool invoked by a test
    calls,           \* the tool calls the ToolNode (or a test) has in flight
    issued,          \* number of tool calls proposed so far in this run
    merges,          \* the updates written to pptx_file_path so far
    finished,        \* ids of the latest turn's calls, in the order they completed
    reader,          \* PptxReader at work: the presentation, the anchors read from it
    bound,           \* the tools bound to the model at the latest decision step
    program          \* a Program.cs being materialized, and the error of its build

vars == <<messages, pptx_file_path, node, calls, issued, merges, finished, reader,
         bound, program>>

----------------------------------------------------------------------------
(* Bounds and input sets *)

MaxCalls == 3      \* cap on the tool calls proposed in one run
MaxMerges == 4     \* cap on the length of a sequence of state merges

None == <<>>
Some(x) == <<x>>

EditTool == "execute_pptx_code"
StructureTool == "read_pptx_structure"
DetailsTool == "read_slide_details"
Tools == {EditTool, StructureTool, DetailsTool}

\* The tool-call lists the decision function may return in one turn.
Proposals ==
    { <<>>,
      <<EditTool>>,
      <<EditTool, EditTool>>,
      <<DetailsTool, EditTool>> }

PathInputs == {None, Some(""), Some("/a.pptx"), Some("/b.pptx")}
InitialInputs == {None, Some(""), Some("/a.pptx")}

\* (stdout, stderr) of a child process
StreamPairs == { <<"out", "">>, <<"out", "err">> }
\* (stdout, stderr) of a failed dotnet restore / dotnet build
ToolchainStreams == { <<"out", "err">> }
\* Exit statuses of dotnet restore and dotnet build
ToolchainExitCodes == {0, 1}

ExitCodes == {0, 1, 2}
ValidationExitCode == 2

\* str(e) of a fault raised by the file system or by process creation
FaultText == "[Errno] OSError"

----------------------------------------------------------------------------
(* State and its reducers *)

preserve_value_Overwrite(current, update) == update

preserve_value(current, update) ==
    IF update # None THEN update ELSE current

\* An id no message of msgs carries (uuid4 in the code)
FreshId(msgs) ==
    1 + (IF msgs = <<>> THEN 0
         ELSE CHOOSE n \in {msgs[i].id : i \in 1..Len(msgs)} :
                \A i \in 1..Len(msgs) : msgs[i].id <= n)

\* One message merged into the history: a message without id (0) is given
\* a fresh one; a message whose id is already in the history replaces that
\* message in place, any other message is appended
merge_message(left, msg) ==
    LET m == IF msg.id = 0 THEN [msg EXCEPT !.id = FreshId(left)] ELSE msg
        hit == {i \in 1..Len(left) : left[i].id = m.id}
    IN IF hit = {} THEN Append(left, m)
       ELSE [left EXCEPT ![CHOOSE i \in hit : TRUE] = m]

add_messages_Replace(left, right) == right

\* add_messages: the messages of right merged into left, one after another
RECURSIVE add_messages(_, _)
add_messages(left, right) ==
    IF right = <<>> THEN left
    ELSE CHOOSE merged \in { add_messages(l, Tail(right)) :
                                l \in {merge_message(left, Head(right))} } : TRUE

\* Python truthiness of an Optional[str]
Truthy(opt) == opt # None /\ opt[1] # ""

HumanMessage == [id |-> 0, type |-> "human", tool_calls |-> <<>>, tool_call_id |-> 0,
                 name |-> "", content |-> <<"user request">>]

AIMessage(tcs) == [id |-> 0, type |-> "ai", tool_calls |-> tcs, tool_call_id |-> 0,
                   name |-> "", content |-> <<>>]

ToolMessage(id, name, content) ==
    [id |-> 0, type |-> "tool", tool_calls |-> <<>>, tool_call_id |-> id,
     name |-> name, content |-> content]

----------------------------------------------------------------------------
(* Executor results: the dicts {"success", "output"} / {"success", "error"} *)

Success(out) == [success |-> TRUE, output |-> out, error |-> <<>>]
Failure(err) == [success |-> FALSE, output |-> "", error |-> err]

RestoreFailedPrefix == "Package restore failed: "
BuildFailedEditPrefix == "Build failed:"
BuildFailedReadPrefix == "Build failed: "
ValidationPrefix ==
    "Validation failed - the modifications would corrupt the PowerPoint file:"
RuntimePrefix == "Execution error: "
TimedOutEditText == "Code execution timed out after 60 seconds"
TimedOutReadText == "Code execution timed out"

\* result.stderr or result.stdout
StderrOrStdout(io) == IF io[2] # "" THEN io[2] ELSE io[1]

ClassifyEdit_Lenient(code, io) ==
    IF code = ValidationExitCode THEN Failure(<<ValidationPrefix, io[1]>>)
    ELSE Success(io[1])

\* execute_csharp_code, the branch on result.returncode
ClassifyEdit(code, io) ==
    IF code = 0 THEN Success(io[1])
    ELSE IF code = ValidationExitCode THEN Failure(<<ValidationPrefix, io[1]>>)
    ELSE Failure(<<RuntimePrefix, StderrOrStdout(io)>>)

\* execute_reading_code, the branch on result.returncode
ClassifyRead(code, io) ==
    IF code = 0 THEN Success(io[1])
    ELSE Failure(<<RuntimePrefix, StderrOrStdout(io)>>)

----------------------------------------------------------------------------
(* How an executor invocation ends: returned (with a result) or raised *)

\* (ran lists what the exit path executed, in order)
Return(res, dir) == [pc |-> "returned", dir |-> dir, result |-> Some(res), ran |-> <<>>]
Raise(dir) == [pc |-> "raised", dir |-> dir, result |-> None, ran |-> <<>>]

\* One executed step or call and how it ended
Event(what, how) == <<what, how>>

\* How a process that exited with returncode code ended
Exited(code) == IF code = 0 THEN "exit 0" ELSE "exit nonzero"

\* The exit x, reached after the event ev
After(ev, x) == [x EXCEPT !.ran = <<ev>> \o @]

\* shutil.rmtree(temp_dir): removes the area, or raises: having failed on an
\* area that is still there, or having found the area absent (another actor
\* removed it: FileNotFoundError)
Rmtree(dir) ==
    IF dir = "present"
    THEN { [ok |-> TRUE, dir |-> "gone", ev |-> Event("rmtree", "ok")],
           [ok |-> FALSE, dir |-> "present", ev |-> Event("rmtree", "failed")],
           [ok |-> FALSE, dir |-> "gone", ev |-> Event("rmtree", "absent")] }
    ELSE { [ok |-> FALSE, dir |-> dir, ev |-> Event("rmtree", "absent")] }

\* except Exception as e: remove the area if it exists, return str(e)
ExceptHandler(dir) ==
    IF dir = "present"
    THEN { After(r.ev, IF r.ok THEN Return(Failure(<<FaultText>>), r.dir)
                               ELSE Raise(r.dir))
           : r \in Rmtree(dir) }
    ELSE { Return(Failure(<<FaultText>>), dir) }

TimeoutHandler_NoCleanup(dir, text) == { Return(Failure(<<text>>), dir) }

\* except subprocess.TimeoutExpired: remove the area, return the timeout text
TimeoutHandler(dir, text) ==
    { After(r.ev, IF r.ok THEN Return(Failure(<<text>>), r.dir) ELSE Raise(r.dir))
      : r \in Rmtree(dir) }

\* await rmtree(temp_dir) inside the try block, then return res
CleanupThenReturn(dir, res) ==
    UNION { { After(r.ev, x) : x \in IF r.ok THEN {Return(res, r.dir)}
                                             ELSE ExceptHandler(r.dir) }
            : r \in Rmtree(dir) }

\* The exits X, reached after the event ev
Step(ev, X) == { After(ev, x) : x \in X }

----------------------------------------------------------------------------
(* The tools' result texts *)

NoPathText == "Error: No PowerPoint file path provided in state"

\* execute_pptx_code
EditToolText(res) ==
    IF res.success
    THEN <<"Code executed successfully. Output: ", res.output>>
    ELSE <<"Execution failed: ">> \o res.error

\* read_pptx_structure
StructureToolText(res) ==
    IF res.success THEN <<res.output>>
    ELSE <<"Failed to read presentation structure: ">> \o res.error

\* read_slide_details
DetailsToolText(res) ==
    IF res.success THEN <<res.output>>
    ELSE <<"Failed to read slide details: ">> \o res.error

ToolText(tool, res) ==
    IF tool = EditTool THEN EditToolText(res)
    ELSE IF tool = StructureTool THEN StructureToolText(res)
    ELSE DetailsToolText(res)

\* ToolNode turns a tool's exception into an error ToolMessage
ToolErrorText == <<"Error: ", FaultText, " Please fix your mistakes.">>

NewCall(id, tool) ==
    [id |-> id, tool |-> tool, pc |-> "pending", dir |-> "none",
     temp_dir |-> None, log |-> <<>>,
     child |-> "none", subtree |-> "none", exit |-> None,
     result |-> None, text |-> <<>>]

----------------------------------------------------------------------------
(* Initial states *)

workflow_ToolsToEnd(from, route) ==
    IF from = "llm" THEN (IF route = "tools" THEN "tools" ELSE "end")
    ELSE IF from = "tools" THEN "end"
    ELSE "llm"

\* The edges of the graph: __start__ -> llm, llm -> tools or __end__ as
\* should_continue routes, tools -> llm
workflow(from, route) ==
    IF from = "llm" THEN (IF route = "tools" THEN "tools" ELSE "end")
    ELSE "llm"

\* graph.ainvoke(initial_state): the input is merged into the default State
\* and the edge __start__ -> llm is taken.
InitGraph ==
    \E u \in InitialInputs :
        /\ pptx_file_path = preserve_value(None, u)
        /\ merges = <<u>>
        /\ messages = add_messages(<<>>, <<HumanMessage>>)
        /\ node = workflow("__start__", "")
        /\ calls = <<>>
        /\ issued = 0
        /\ finished = <<>>
        /\ reader = <<>>
        /\ bound = {}
        /\ program = <<>>

\* tool.ainvoke({..., "state": State(messages=[], pptx_file_path=p)}), as the
\* tests invoke a tool outside the graph.
InitDirect ==
    \E u \in InitialInputs, t \in Tools :
        /\ pptx_file_path = preserve_value(None, u)
        /\ merges = <<u>>
        /\ messages = <<>>
        /\ node = "direct"
        /\ calls = <<NewCall(1, t)>>
        /\ issued = 1
        /\ finished = <<>>
        /\ reader = <<>>
        /\ bound = {}
        /\ program = <<>>

Init == InitGraph \/ InitDirect

----------------------------------------------------------------------------
(* The control loop *)

HasToolCalls(m) == m.type = "ai" /\ m.tool_calls # <<>>

should_continue_AlwaysEnd(msgs) == "end"

should_continue(msgs) ==
    IF HasToolCalls(msgs[Len(msgs)]) THEN "tools" ELSE "end"

ToolsBound_Always(path) == TRUE

\* llm.bind_tools(...) only when state.pptx_file_path is truthy
ToolsBound(path) == Truthy(path)

PathUpdate_Clears(nodeName) == Some("")

\* The update of pptx_file_path a node returns: llm_node returns
\* {"messages": [response]} and the ToolNode returns ToolMessages only,
\* so the reducer receives no value for the field
PathUpdate(nodeName) == None

\* llm_node, then the conditional edge should_continue; on "tools" the
\* ToolNode starts one coroutine per tool call of the response.
LlmNode ==
    /\ node = "llm"
    /\ \E p \in Proposals :
        /\ p # <<>> => ToolsBound(pptx_file_path)
        /\ issued + Len(p) <= MaxCalls
        /\ LET tcs == [i \in 1..Len(p) |-> [id |-> issued + i, name |-> p[i]]]
               response == AIMessage(tcs)
               msgs == add_messages(messages, <<response>>)
               route == should_continue(msgs)
           IN /\ messages' = msgs
              /\ issued' = issued + Len(p)
              /\ node' = workflow("llm", route)
              /\ calls' = IF route = "tools"
                          THEN [i \in 1..Len(tcs) |-> NewCall(tcs[i].id, tcs[i].name)]
                          ELSE <<>>
    /\ finished' = <<>>
    /\ bound' = IF ToolsBound(pptx_file_path) THEN Tools ELSE {}
    /\ pptx_file_path' = preserve_value(pptx_file_path, PathUpdate("llm"))
    /\ UNCHANGED <<merges, reader, program>>

Completed_Always(call) == TRUE

Completed_OnlyReturned(call) == call.pc = "returned"

\* A call whose coroutine has finished: the tool returned, or it raised
\* and asyncio.gather received the exception
Completed(call) == call.pc \in {"returned", "raised"}

\* The content of the ToolMessage the ToolNode builds for a finished call
ToolContent(call) == IF call.pc = "returned" THEN call.text ELSE ToolErrorText

GatherResults_CompletionOrder(cs, done) ==
    [k \in 1..Len(done) |->
        LET c == CHOOSE d \in 1..Len(cs) : cs[d].id = done[k]
        IN ToolMessage(cs[c].id, cs[c].tool, ToolContent(cs[c]))]

\* The ToolMessages of a turn: asyncio.gather returns the results in the
\* order of the calls, not in the order of completion (done)
GatherResults(cs, done) ==
    [c \in 1..Len(cs) |-> ToolMessage(cs[c].id, cs[c].tool, ToolContent(cs[c]))]

\* tools_node: asyncio.gather has joined every call; the ToolMessages
\* are appended in call order and the edge tools -> llm is taken.
ToolsDone ==
    /\ node = "tools"
    /\ \A c \in 1..Len(calls) : Completed(calls[c])
    /\ messages' = add_messages(messages, GatherResults(calls, finished))
    /\ calls' = <<>>
    /\ node' = workflow("tools", "")
    /\ pptx_file_path' = preserve_value(pptx_file_path, PathUpdate("tools"))
    /\ UNCHANGED <<issued, merges, finished, reader, bound, program>>

----------------------------------------------------------------------------
(* The tools and the executors *)

\* What a step of one call leaves alone; a call that completes in the step
\* is recorded in finished
Frame ==
    /\ UNCHANGED <<messages, pptx_file_path, node, issued, merges, reader, bound, program>>
    /\ LET new == {d \in 1..Len(calls) : Completed(calls'[d]) /\ ~Completed(calls[d])}
       IN finished' = IF new = {} THEN finished
                      ELSE Append(finished, calls[CHOOSE d \in new : TRUE].id)

\* The log of executed steps and the child's exit status are kept for a tool
\* invoked on its own; inside the graph a call is observed through its
\* result, its working area and its processes only
Logged(l) == IF node = "direct" THEN l ELSE <<>>

\* A call that ended as x, its processes left as (child, subtree), the
\* child's exit status (if it exited) as exit
Ended(call, x, child, subtree, exit) ==
    [call EXCEPT !.pc = x.pc, !.dir = x.dir, !.result = x.result,
                 !.log = Logged(@ \o x.ran),
                 !.child = child, !.subtree = subtree, !.exit = Logged(exit),
                 !.text = IF x.pc = "returned"
                          THEN ToolText(call.tool, x.result[1]) ELSE <<>>]

End(c, x) ==
    calls' = [calls EXCEPT ![c] = Ended(calls[c], x, calls[c].child, calls[c].subtree, None)]

Goto(c, pc) == calls' = [calls EXCEPT ![c].pc = pc]

\* The step that ended as ev is followed by the step pc
Advance(c, pc, ev) ==
    calls' = [calls EXCEPT ![c].pc = pc, ![c].log = Logged(Append(@, ev))]

Mkdtemp_Fixed(id) == <<"tmp", 0>>

\* tempfile.mkdtemp(): a directory that did not exist before the call; its
\* name is new with every invocation
Mkdtemp(id) == <<"tmp", id>>

\* mkdtemp has created the area of call c
Created(c) == [calls EXCEPT ![c].dir = "present",
                            ![c].temp_dir = Some(Mkdtemp(calls[c].id))]

Template_SavesRejected(code) == { <<>>, <<Event("document", "saved")>> }

\* PptxEditor/Program.cs around the injected code: what a child that exits
\* with code has done to the target document. An edit rejected by the
\* structural validation is not saved; otherwise the document may have
\* been saved or not.
Template(code) ==
    IF code = ValidationExitCode
    THEN { <<>> }
    ELSE { <<>>, <<Event("document", "saved")>> }

Timeout_ReadLonger(tool, step) ==
    IF tool = EditTool
    THEN (IF step = "run" THEN Some(60) ELSE Some(30))
    ELSE (IF step = "run" THEN Some(90) ELSE Some(30))

Timeout_Unbounded(tool, step) == None

\* The timeout= argument of the subprocess.run of a step, in seconds
Timeout(tool, step) ==
    IF tool = EditTool
    THEN (IF step = "run" THEN Some(60) ELSE Some(30))
    ELSE (IF step = "run" THEN Some(60) ELSE Some(30))

TimedOutText_AsRuntime(tool) == RuntimePrefix

\* The text an executor returns from its TimeoutExpired handler
TimedOutText(tool) == IF tool = EditTool THEN TimedOutEditText ELSE TimedOutReadText

\* subprocess.run raises TimeoutExpired in the step of call c
Deadline(c, step) ==
    /\ Timeout(calls[c].tool, step) # None
    /\ \E x \in Step(Event(step, "timeout"),
                    TimeoutHandler(calls[c].dir, TimedOutText(calls[c].tool))) : End(c, x)

StepPassed_Always(code) == TRUE

\* if result.returncode != 0: the step has failed
StepPassed(code) == code = 0

ToolPrecondition_Skip(path) == TRUE

\* if not pptx_file_path: return "Error: ..."
ToolPrecondition(path) == Truthy(path)

\* The head of each tool: the precondition on state.pptx_file_path
ToolInvoke(c) ==
    /\ calls[c].pc = "pending"
    /\ IF ToolPrecondition(pptx_file_path)
       THEN Goto(c, "prepare")
       ELSE calls' = [calls EXCEPT ![c].pc = "returned", ![c].text = <<NoPathText>>]
    /\ Frame

\* execute_csharp_code up to the try block: read the template, mkdtemp,
\* copy the project file, write Program.cs. None of it is guarded.
EditPrepare(c) ==
    /\ calls[c].tool = EditTool
    /\ calls[c].pc = "prepare"
    /\ \/ End(c, Raise("none"))        \* template read or mkdtemp raised
       \/ calls' = [Created(c) EXCEPT \* copy2 or the write raised after mkdtemp
                      ![c] = Ended(@, Raise("present"), @.child, @.subtree, None)]
       \/ calls' = [Created(c) EXCEPT ![c].pc = "restore"]
    /\ Frame

\* dotnet restore
EditRestore(c) ==
    /\ calls[c].tool = EditTool
    /\ calls[c].pc = "restore"
    /\ \/ \E code \in ToolchainExitCodes, io \in ToolchainStreams :
            IF StepPassed(code)
            THEN Advance(c, "build", Event("restore", Exited(code)))
            ELSE \E x \in Step(Event("restore", Exited(code)),
                             CleanupThenReturn(calls[c].dir,
                                Failure(<<RestoreFailedPrefix, io[2]>>))) : End(c, x)
       \/ Deadline(c, "restore")
       \/ \E x \in Step(Event("restore", "fault"),
                       ExceptHandler(calls[c].dir)) : End(c, x)
    /\ Frame

BuildFailedEdit(io) ==
    Failure(<<BuildFailedEditPrefix, io[2], io[1],
              "Generated code (first 50 lines):", "code_with_lines">>)

\* dotnet build --no-restore
EditBuild(c) ==
    /\ calls[c].tool = EditTool
    /\ calls[c].pc = "build"
    /\ \/ \E code \in ToolchainExitCodes, io \in ToolchainStreams :
            IF StepPassed(code)
            THEN Advance(c, "run", Event("build", Exited(code)))
            ELSE \E x \in Step(Event("build", Exited(code)),
                             CleanupThenReturn(calls[c].dir, BuildFailedEdit(io))) :
                    End(c, x)
       \/ Deadline(c, "build")
       \/ \E x \in Step(Event("build", "fault"),
                       ExceptHandler(calls[c].dir)) : End(c, x)
    /\ Frame

\* dotnet run --no-build -- pptx_file_path: the child is started
EditRunStart(c) ==
    /\ calls[c].tool = EditTool
    /\ calls[c].pc = "run"
    /\ \/ calls' = [calls EXCEPT ![c].pc = "running", ![c].child = "running",
                                 ![c].subtree = "running"]
       \/ \E x \in Step(Event("run", "fault"),
                       ExceptHandler(calls[c].dir)) : End(c, x)
    /\ Frame

\* the child exits within the timeout: cleanup, then classification
EditRunExit(c) ==
    /\ calls[c].tool = EditTool
    /\ calls[c].pc = "running"
    /\ \E code \in ExitCodes, io \in StreamPairs :
        \E doc \in Template(code),
           x \in Step(Event("run", "exited"),
                    CleanupThenReturn(calls[c].dir, ClassifyEdit(code, io))) :
            calls' = [calls EXCEPT ![c] = Ended(calls[c], [x EXCEPT !.ran = doc \o @],
                                                "exited", "exited", Some(<<code, io>>))]
    /\ Frame

\* subprocess.run kills the child it started (and nothing else) and raises
\* TimeoutExpired; what the child had spawned may still run.
EditRunTimeout(c) ==
    /\ calls[c].tool = EditTool
    /\ calls[c].pc = "running"
    /\ Timeout(calls[c].tool, "run") # None
    /\ \E sub \in {"running", "exited"},
          x \in Step(Event("run", "timeout"),
                    TimeoutHandler(calls[c].dir, TimedOutText(calls[c].tool))) :
            calls' = [calls EXCEPT ![c] = Ended(calls[c], x, "killed", sub, None)]
    /\ Frame

\* execute_reading_code up to the try block: mkdtemp, two copies, the write
ReadPrepare(c) ==
    /\ calls[c].tool \in {StructureTool, DetailsTool}
    /\ calls[c].pc = "prepare"
    /\ \/ End(c, Raise("none"))
       \/ calls' = [Created(c) EXCEPT
                      ![c] = Ended(@, Raise("present"), @.child, @.subtree, None)]
       \/ calls' = [Created(c) EXCEPT ![c].pc = "build"]
    /\ Frame

\* dotnet build /p:StartupObject=ReadProgram
ReadBuild(c) ==
    /\ calls[c].tool \in {StructureTool, DetailsTool}
    /\ calls[c].pc = "build"
    /\ \/ \E code \in ToolchainExitCodes, io \in ToolchainStreams :
            IF StepPassed(code)
            THEN Advance(c, "run", Event("build", Exited(code)))
            ELSE \E x \in Step(Event("build", Exited(code)),
                             CleanupThenReturn(calls[c].dir,
                                Failure(<<BuildFailedReadPrefix, io[2]>>))) : End(c, x)
       \/ Deadline(c, "build")
       \/ \E x \in Step(Event("build", "fault"),
                       ExceptHandler(calls[c].dir)) : End(c, x)
    /\ Frame

ReadRunStart(c) ==
    /\ calls[c].tool \in {StructureTool, DetailsTool}
    /\ calls[c].pc = "run"
    /\ \/ calls' = [calls EXCEPT ![c].pc = "running", ![c].child = "running",
                                 ![c].subtree = "running"]
       \/ \E x \in Step(Event("run", "fault"),
                       ExceptHandler(calls[c].dir)) : End(c, x)
    /\ Frame

ReadRunExit(c) ==
    /\ calls[c].tool \in {StructureTool, DetailsTool}
    /\ calls[c].pc = "running"
    /\ \E code \in ExitCodes, io \in StreamPairs :
        \E x \in Step(Event("run", "exited"),
                    CleanupThenReturn(calls[c].dir, ClassifyRead(code, io))) :
            calls' = [calls EXCEPT ![c] = Ended(calls[c], x, "exited", "exited", Some(<<code, io>>))]
    /\ Frame

ReadRunTimeout(c) ==
    /\ calls[c].tool \in {StructureTool, DetailsTool}
    /\ calls[c].pc = "running"
    /\ Timeout(calls[c].tool, "run") # None
    /\ \E sub \in {"running", "exited"},
          x \in Step(Event("run", "timeout"),
                    TimeoutHandler(calls[c].dir, TimedOutText(calls[c].tool))) :
            calls' = [calls EXCEPT ![c] = Ended(calls[c], x, "killed", sub, None)]
    /\ Frame

Next ==
    \/ LlmNode
    \/ ToolsDone
    \/ \E c \in 1..Len(calls) : ToolInvoke(c)
    \/ \E c \in 1..Len(calls) : EditPrepare(c)
    \/ \E c \in 1..Len(calls) : EditRestore(c)
    \/ \E c \in 1..Len(calls) : EditBuild(c)
    \/ \E c \in 1..Len(calls) : EditRunStart(c)
    \/ \E c \in 1..Len(calls) : EditRunExit(c)
    \/ \E c \in 1..Len(calls) : EditRunTimeout(c)
    \/ \E c \in 1..Len(calls) : ReadPrepare(c)
    \/ \E c \in 1..Len(calls) : ReadBuild(c)
    \/ \E c \in 1..Len(calls) : ReadRunStart(c)
    \/ \E c \in 1..Len(calls) : ReadRunExit(c)
    \/ \E c \in 1..Len(calls) : ReadRunTimeout(c)

Spec == Init /\ [][Next]_vars

\* A tool invoked on its own, as the repository's scripts do: the steps of
\* one invocation
NextExec ==
    \/ \E c \in 1..Len(calls) : ToolInvoke(c)
    \/ \E c \in 1..Len(calls) : EditPrepare(c)
    \/ \E c \in 1..Len(calls) : EditRestore(c)
    \/ \E c \in 1..Len(calls) : EditBuild(c)
    \/ \E c \in 1..Len(calls) : EditRunStart(c)
    \/ \E c \in 1..Len(calls) : EditRunExit(c)
    \/ \E c \in 1..Len(calls) : EditRunTimeout(c)
    \/ \E c \in 1..Len(calls) : ReadPrepare(c)
    \/ \E c \in 1..Len(calls) : ReadBuild(c)
    \/ \E c \in 1..Len(calls) : ReadRunStart(c)
    \/ \E c \in 1..Len(calls) : ReadRunExit(c)
    \/ \E c \in 1..Len(calls) : ReadRunTimeout(c)

SpecExec == InitDirect /\ [][NextExec]_vars

\* The timeout of the restore or build step of call c expires
Expires(c) ==
    /\ calls[c].pc \in {"restore", "build"}
    /\ Deadline(c, calls[c].pc)
    /\ Frame

\* What the scheduling guarantees of one invocation: the tool's own
\* statements are executed, and a process that is still running when its
\* timeout expires is ended by it. That a process exits by itself is not
\* assumed.
FairExec ==
    /\ WF_vars(ToolInvoke(1))
    /\ WF_vars(EditPrepare(1)) /\ WF_vars(ReadPrepare(1))
    /\ WF_vars(EditRunStart(1)) /\ WF_vars(ReadRunStart(1))
    /\ WF_vars(Expires(1))
    /\ WF_vars(EditRunTimeout(1)) /\ WF_vars(ReadRunTimeout(1))

SpecExecFair == SpecExec /\ FairExec

\* The largest number of calls of one turn
MaxTurnCalls ==
    CHOOSE n \in {Len(p) : p \in Proposals} : \A p \in Proposals : Len(p) <= n

\* The steps of call c that do not wait for a process to exit by itself:
\* the tool's own statements and the expiry of a timeout
CallProgress(c) ==
    /\ c \in DOMAIN calls
    /\ \/ ToolInvoke(c)
       \/ EditPrepare(c) \/ ReadPrepare(c)
       \/ EditRunStart(c) \/ ReadRunStart(c)
       \/ Expires(c)
       \/ EditRunTimeout(c) \/ ReadRunTimeout(c)

\* What the scheduling guarantees of a run of the graph: a node that is
\* ready is run (a decision call returns, the joined results are appended),
\* and the event loop runs every call of a turn that can take a step.
FairGraph ==
    /\ WF_vars(LlmNode)
    /\ WF_vars(ToolsDone)
    /\ \A c \in 1..MaxTurnCalls : WF_vars(CallProgress(c))

SpecGraphFair == InitGraph /\ [][Next]_vars /\ FairGraph

----------------------------------------------------------------------------
(* Sequences of state merges on pptx_file_path *)

InitMerge ==
    /\ pptx_file_path = None
    /\ merges = <<>>
    /\ messages = <<>>
    /\ node = "__start__"
    /\ calls = <<>>
    /\ issued = 0
    /\ finished = <<>>
    /\ reader = <<>>
    /\ bound = {}
    /\ program = <<>>

\* One state update: the reducer of pptx_file_path is applied to the update
Merge ==
    /\ node = "__start__"
    /\ Len(merges) < MaxMerges
    /\ \E u \in PathInputs :
        /\ pptx_file_path' = preserve_value(pptx_file_path, u)
        /\ merges' = Append(merges, u)
    /\ UNCHANGED <<messages, node, calls, issued, finished, reader, bound, program>>

NextMerge == Merge

SpecMerge == InitMerge /\ [][NextMerge]_vars

----------------------------------------------------------------------------
(* The anchor codec of PptxReader: slide{num}_{type}{index}_{hash}.        *)
(* Text is a sequence of characters.                                       *)

MaxIndex == 10     \* cap on slide numbers and element indices

DigitChars == <<"0", "1", "2", "3", "4", "5", "6", "7", "8", "9">>
IsDigit(ch) == \E d \in 1..10 : DigitChars[d] = ch
DigitValue(ch) == (CHOOSE d \in 1..10 : DigitChars[d] = ch) - 1

\* The decimal numeral of n
RECURSIVE Digits(_)
Digits(n) ==
    IF n < 10 THEN <<DigitChars[n + 1]>>
    ELSE Digits(n \div 10) \o <<DigitChars[(n % 10) + 1]>>

\* The number a non-empty numeral stands for
RECURSIVE Number(_)
Number(ds) ==
    IF Len(ds) = 1 THEN DigitValue(ds[1])
    ELSE 10 * Number(SubSeq(ds, 1, Len(ds) - 1)) + DigitValue(ds[Len(ds)])

SlidePrefix == <<"s", "l", "i", "d", "e">>
Title == <<"t", "i", "t", "l", "e">>
Body == <<"b", "o", "d", "y">>
Bullet == <<"b", "u", "l", "l", "e", "t">>
Kinds == {Title, Body, Bullet}

\* Element texts
Contents == { <<"a">>, <<" ", "a">>, <<"b">> }

\* The text without leading and trailing blanks
RECURSIVE Trim(_)
Trim(c) ==
    IF c = <<>> THEN c
    ELSE IF Head(c) = " " THEN Trim(Tail(c))
    ELSE IF c[Len(c)] = " " THEN Trim(SubSeq(c, 1, Len(c) - 1))
    ELSE c

\* Six-character hexadecimal digests
Digests == { <<"a", "b", "c", "1", "2", "3">>, <<"0", "f", "9", "e", "4", "d">> }

\* The content hash, cut to a digest: some function of the trimmed text
Hashes == [ {Trim(c) : c \in Contents} -> Digests ]

Encode_NoDigest(hash, i, kind, j, c) ==
    SlidePrefix \o Digits(i) \o <<"_">> \o kind \o Digits(j) \o <<"_">>

Encode_NoSeparator(hash, i, kind, j, c) ==
    SlidePrefix \o Digits(i) \o kind \o Digits(j) \o <<"_">> \o hash[Trim(c)]

\* encode(containerIndex, kind, localIndex, content)
Encode(hash, i, kind, j, c) ==
    SlidePrefix \o Digits(i) \o <<"_">> \o kind \o Digits(j) \o <<"_">> \o hash[Trim(c)]

\* The parts of s between the separators sep
RECURSIVE Split(_, _)
Split(s, sep) ==
    IF \A k \in 1..Len(s) : s[k] # sep THEN <<s>>
    ELSE LET k == CHOOSE n \in 1..Len(s) :
                    s[n] = sep /\ \A m \in 1..(n - 1) : s[m] # sep
         IN <<SubSeq(s, 1, k - 1)>> \o Split(SubSeq(s, k + 1, Len(s)), sep)

\* The number of characters of s before its first digit
Lead(s) ==
    IF \A k \in 1..Len(s) : ~IsDigit(s[k]) THEN Len(s)
    ELSE (CHOOSE n \in 1..Len(s) :
            IsDigit(s[n]) /\ \A m \in 1..(n - 1) : ~IsDigit(s[m])) - 1

IsNumeral(s) == s # <<>> /\ \A k \in 1..Len(s) : IsDigit(s[k])

MalformedAnchor ==
    [ok |-> FALSE, containerIndex |-> 0, kind |-> <<>>, localIndex |-> 0, digest |-> <<>>]

\* parse(anchor): the three-part grammar, or MalformedAnchor
Parse(a) ==
    LET parts == Split(a, "_")
    IN IF Len(parts) # 3 THEN MalformedAnchor
       ELSE LET head == parts[1]
                mid == parts[2]
                num == SubSeq(head, Len(SlidePrefix) + 1, Len(head))
                idx == SubSeq(mid, Lead(mid) + 1, Len(mid))
            IN IF /\ Len(head) > Len(SlidePrefix)
                  /\ SubSeq(head, 1, Len(SlidePrefix)) = SlidePrefix
                  /\ IsNumeral(num)
                  /\ Lead(mid) > 0
                  /\ IsNumeral(idx)
                  /\ parts[3] # <<>>
               THEN [ok |-> TRUE, containerIndex |-> Number(num),
                     kind |-> SubSeq(mid, 1, Lead(mid)),
                     localIndex |-> Number(idx), digest |-> parts[3]]
               ELSE MalformedAnchor

\* The codec applied to drawn inputs: one address, two contents
InitCodec ==
    /\ reader \in [phase : {"input"}, i : 1..MaxIndex, kind : Kinds,
                    j : 0..(MaxIndex - 1), c1 : Contents, c2 : Contents,
                    hash : Hashes, a1 : {<<>>}, a2 : {<<>>},
                    parsed : {MalformedAnchor}]
    /\ messages = <<>>
    /\ pptx_file_path = None
    /\ node = "codec"
    /\ calls = <<>>
    /\ issued = 0
    /\ merges = <<>>
    /\ finished = <<>>
    /\ bound = {}
    /\ program = <<>>

EncodeParse ==
    /\ node = "codec"
    /\ reader.phase = "input"
    /\ reader' = [reader EXCEPT
            !.phase = "done",
            !.a1 = Encode(reader.hash, reader.i, reader.kind, reader.j, reader.c1),
            !.a2 = Encode(reader.hash, reader.i, reader.kind, reader.j, reader.c2),
            !.parsed = Parse(Encode(reader.hash, reader.i, reader.kind,
                                    reader.j, reader.c1))]
    /\ UNCHANGED <<messages, pptx_file_path, node, calls, issued, merges, finished, bound, program>>

NextCodec == EncodeParse

SpecCodec == InitCodec /\ [][NextCodec]_vars

----------------------------------------------------------------------------
(* The snapshot reader of PptxReader (ReadStructure, ReadSlideDetails,     *)
(* FindByAnchor) over a presentation that edits change between reads.      *)
(* A presentation is a sequence of slides, a slide a sequence of elements  *)
(* [kind, content, children], a child an element without children.         *)

MaxEdits == 1      \* cap on the edits applied to the presentation
MaxReads == 2      \* cap on the reads of the presentation

Element(kind, content, children) ==
    [kind |-> kind, content |-> content, children |-> children]

\* A slide with a title and two bulleted bodies, and a slide with a title
Presentation ==
    << << Element(Title, <<"a">>, <<>>),
          Element(Body, <<"b">>, <<Element(Bullet, <<"a">>, <<>>)>>),
          Element(Body, <<"b">>, <<Element(Bullet, <<"a">>, <<>>)>>) >>,
       << Element(Title, <<"a">>, <<>>) >> >>

\* localIndex: the 0-based position of elems[k] among its siblings of the
\* same kind
LocalIndex(elems, k) ==
    Cardinality({m \in 1..(k - 1) : elems[m].kind = elems[k].kind})

\* The snapshots of the sibling elements elems of slide i (children one
\* level deep)
Snapshots(hash, i, elems) ==
    [k \in 1..Len(elems) |->
        [anchor |-> Encode(hash, i, elems[k].kind, LocalIndex(elems, k),
                           elems[k].content),
         kind |-> elems[k].kind,
         content |-> elems[k].content,
         children |->
            LET ch == elems[k].children
            IN [n \in 1..Len(ch) |->
                  [anchor |-> Encode(hash, i, ch[n].kind, LocalIndex(ch, n),
                                     ch[n].content),
                   kind |-> ch[n].kind,
                   content |-> ch[n].content,
                   children |-> <<>>]]]]

\* The anchors of a sequence of element snapshots, children included
RECURSIVE AnchorsOf(_)
AnchorsOf(snaps) ==
    IF snaps = <<>> THEN <<>>
    ELSE <<Head(snaps).anchor>> \o AnchorsOf(Head(snaps).children)
                               \o AnchorsOf(Tail(snaps))

ReadSlideDetails_Abort(hash, doc, slideNumbers) ==
    IF \E k \in 1..Len(slideNumbers) : slideNumbers[k] \notin 1..Len(doc)
    THEN <<>>
    ELSE [k \in 1..Len(slideNumbers) |->
            [found |-> TRUE, slideNumber |-> slideNumbers[k],
             elements |-> Snapshots(hash, slideNumbers[k], doc[slideNumbers[k]])]]

\* readDetail: one entry per requested slide number, in the order of the
\* request; an out-of-range number is reported in its entry
ReadSlideDetails(hash, doc, slideNumbers) ==
    [k \in 1..Len(slideNumbers) |->
        IF slideNumbers[k] \in 1..Len(doc)
        THEN [found |-> TRUE, slideNumber |-> slideNumbers[k],
              elements |-> Snapshots(hash, slideNumbers[k], doc[slideNumbers[k]])]
        ELSE [found |-> FALSE, slideNumber |-> slideNumbers[k], elements |-> <<>>]]

\* readOverview: every slide with its elements' anchors
ReadStructure(hash, doc) ==
    [i \in 1..Len(doc) |->
        [found |-> TRUE, slideNumber |-> i, elements |-> Snapshots(hash, i, doc[i])]]

\* The requests of the read tools: the overview, or a list of slide numbers
Requests == { <<"structure", <<>>>>, <<"details", <<99, 2, 1>>>> }

ReadResult(hash, doc, request) ==
    IF request[1] = "structure" THEN ReadStructure(hash, doc)
    ELSE ReadSlideDetails(hash, doc, request[2])

\* The top-level element snapshots of a read result, in order
RECURSIVE ResultElements(_)
ResultElements(result) ==
    IF result = <<>> THEN <<>>
    ELSE Head(result).elements \o ResultElements(Tail(result))

\* The anchors of a read result, in order
RECURSIVE ResultAnchors(_)
ResultAnchors(result) ==
    IF result = <<>> THEN <<>>
    ELSE AnchorsOf(Head(result).elements) \o ResultAnchors(Tail(result))

OpenedForRead_Normalised(doc) ==
    [i \in 1..Len(doc) |->
        [k \in 1..Len(doc[i]) |-> [doc[i][k] EXCEPT !.content = <<"b">>]]]

\* The presentation after PresentationDocument.Open(filePath, false) and
\* the traversal: opened read-only, it is left as it was
OpenedForRead(doc) == doc

\* The element snapshots of a sequence of snapshots, children included
RECURSIVE Flatten(_)
Flatten(snaps) ==
    IF snaps = <<>> THEN <<>>
    ELSE <<Head(snaps)>> \o Flatten(Head(snaps).children) \o Flatten(Tail(snaps))

FindByAnchor_AddressOnly(hash, doc, a) ==
    LET p == Parse(a)
    IN IF ~p.ok \/ p.containerIndex \notin 1..Len(doc) THEN None
       ELSE LET els == Flatten(Snapshots(hash, p.containerIndex, doc[p.containerIndex]))
                at == {k \in 1..Len(els) :
                          /\ Parse(els[k].anchor).kind = p.kind
                          /\ Parse(els[k].anchor).localIndex = p.localIndex}
            IN IF at = {} THEN None
               ELSE Some(els[CHOOSE k \in at : \A m \in at : k <= m])

\* resolve: the first element of the addressed slide whose anchor, derived
\* from its current content, is the given anchor; None when the address is
\* gone or the digest no longer matches
FindByAnchor(hash, doc, a) ==
    LET p == Parse(a)
    IN IF ~p.ok \/ p.containerIndex \notin 1..Len(doc) THEN None
       ELSE LET els == Flatten(Snapshots(hash, p.containerIndex, doc[p.containerIndex]))
                at == {k \in 1..Len(els) : els[k].anchor = a}
            IN IF at = {} THEN None
               ELSE Some(els[CHOOSE k \in at : \A m \in at : k <= m])

\* The content hashes of the reader, up to renaming of the digests: the
\* one that separates the trimmed contents and the one that does not
ReaderHashes == {h \in Hashes : h[<<"a">>] = <<"a", "b", "c", "1", "2", "3">>}

InitReader ==
    /\ reader \in [hash : ReaderHashes, doc : {Presentation}, reads : {<<>>},
                    nreads : {0}, edits : {0}, dirty : {FALSE},
                    held : {None}, resolved : {None}]
    /\ messages = <<>>
    /\ pptx_file_path = Some("/a.pptx")
    /\ node = "reader"
    /\ calls = <<>>
    /\ issued = 0
    /\ merges = <<>>
    /\ finished = <<>>
    /\ bound = {}
    /\ program = <<>>

ReaderFrame == UNCHANGED <<messages, pptx_file_path, node, calls, issued, merges, finished, bound, program>>

\* A read tool runs to success: its result is kept next to the read before
Read ==
    /\ node = "reader"
    /\ reader.nreads < MaxReads
    /\ \E request \in Requests :
        LET rec == [request |-> request,
                    result |-> ReadResult(reader.hash, reader.doc, request),
                    edited |-> reader.dirty]
        IN reader' = [reader EXCEPT
                !.reads = IF Len(@) = 2 THEN <<@[2], rec>> ELSE Append(@, rec),
                !.nreads = @ + 1,
                !.dirty = FALSE,
                !.doc = OpenedForRead(@)]
    /\ ReaderFrame

\* An edit changes the text of a top-level element
EditElement ==
    /\ node = "reader"
    /\ reader.edits < MaxEdits
    /\ \E i \in 1..Len(reader.doc) : \E k \in 1..Len(reader.doc[i]) :
        \E c \in Contents \ {reader.doc[i][k].content} :
            reader' = [reader EXCEPT !.doc[i][k].content = c,
                                     !.edits = @ + 1, !.dirty = TRUE,
                                    !.resolved = None]
    /\ ReaderFrame

\* An edit removes the first element of a slide
RemoveElement ==
    /\ node = "reader"
    /\ reader.edits < MaxEdits
    /\ \E i \in 1..Len(reader.doc) :
        /\ reader.doc[i] # <<>>
        /\ reader' = [reader EXCEPT !.doc[i] = Tail(@),
                                    !.edits = @ + 1, !.dirty = TRUE,
                                    !.resolved = None]
    /\ ReaderFrame

\* The caller keeps an anchor of the latest read, with the content the
\* element had when the anchor was issued
Hold ==
    /\ node = "reader"
    /\ reader.held = None
    /\ reader.reads # <<>>
    /\ ~reader.dirty
    /\ LET els == Flatten(ResultElements(reader.reads[Len(reader.reads)].result))
       IN \E k \in 1..Len(els) :
            reader' = [reader EXCEPT
                !.held = Some([anchor |-> els[k].anchor, content |-> els[k].content])]
    /\ ReaderFrame

\* The held anchor is resolved against the presentation as it is now; the
\* result stands until the next edit
Resolve ==
    /\ node = "reader"
    /\ reader.held # None
    /\ reader.resolved = None
    /\ reader' = [reader EXCEPT
            !.resolved = Some(FindByAnchor(reader.hash, reader.doc,
                                           reader.held[1].anchor))]
    /\ ReaderFrame

NextReader == Read \/ EditElement \/ RemoveElement \/ Hold \/ Resolve

SpecReader == InitReader /\ [][NextReader]_vars

----------------------------------------------------------------------------
(* The program text: materialization and the listing of a failed build *)

MaxLines == 52

\* The listing of a failed build shows numbered_lines[:50]
ListingLimit == 50

\* "// {CODE}", the placeholder of PptxEditor/Program.cs
Marker == <<"/", "/", " ", "{", "C", "O", "D", "E", "}">>

\* The replacement field {code} of the f-string read_program
ReadField == <<"{", "c", "o", "d", "e", "}">>

\* The literal of read_program before and after its field (shortened to the
\* lines around the field)
ReadHead == <<"t", "r", "y", "\n", "{", "\n", " ">>
ReadTail == <<"\n", "}", "\n">>

\* The positions of s at which old occurs
Occurrences(s, old) ==
    {k \in 1..(Len(s) - Len(old) + 1) : SubSeq(s, k, k + Len(old) - 1) = old}

Replace_Keep(s, old, new) == s

\* str.replace(old, new) for a non-empty old: the occurrences are found from
\* left to right without overlap, and the inserted text is not searched
RECURSIVE Replace(_, _, _)
Replace(s, old, new) ==
    IF Len(s) < Len(old) THEN s
    ELSE IF SubSeq(s, 1, Len(old)) = old
         THEN new \o Replace(SubSeq(s, Len(old) + 1, Len(s)), old, new)
         ELSE <<s[1]>> \o Replace(Tail(s), old, new)

\* The f-string read_program with the value of code in its field
ReadProgram(code) == ReadHead \o code \o ReadTail

\* The text a call materializes: template_content.replace("// {CODE}", code)
\* in execute_csharp_code, the f-string in execute_read_code
Materialized(tool, template, code) ==
    IF tool = EditTool THEN Replace(template, Marker, code) ELSE ReadProgram(code)

\* '\n'.join(parts)
RECURSIVE Join(_, _)
Join(parts, sep) ==
    IF parts = <<>> THEN <<>>
    ELSE IF Len(parts) = 1 THEN parts[1]
    ELSE parts[1] \o <<sep>> \o Join(Tail(parts), sep)

\* generated_code.split('\n'): the pieces between the newlines, empty ones
\* included
RECURSIVE SplitLines(_)
SplitLines(s) ==
    IF \A k \in 1..Len(s) : s[k] # "\n" THEN <<s>>
    ELSE LET k == CHOOSE n \in 1..Len(s) :
                    s[n] = "\n" /\ \A m \in 1..(n - 1) : s[m] # "\n"
         IN <<SubSeq(s, 1, k - 1)>> \o SplitLines(SubSeq(s, k + 1, Len(s)))

\* f"{i+1}: {line}" for the index i of enumerate(lines), which starts at 0
NumberedLine(i, line) == Digits(i + 1) \o <<":", " ">> \o line

CodeWithLines_ZeroBased(generated_code) ==
    LET lines == SplitLines(generated_code)
        numbered_lines == [k \in 1..Len(lines) |-> Digits(k - 1) \o <<":", " ">> \o lines[k]]
    IN Join(IF Len(lines) > ListingLimit THEN SubSeq(numbered_lines, 1, ListingLimit)
            ELSE numbered_lines, "\n")

\* lines = generated_code.split('\n'); numbered_lines = [f"{i+1}: {line}" ...];
\* code_with_lines = '\n'.join(numbered_lines[:50])
CodeWithLines(generated_code) ==
    LET lines == SplitLines(generated_code)
        numbered_lines == [k \in 1..Len(lines) |-> NumberedLine(k - 1, lines[k])]
    IN Join(IF Len(lines) > ListingLimit THEN SubSeq(numbered_lines, 1, ListingLimit)
            ELSE numbered_lines, "\n")

\* The error of a failed build of the edit executor, with the listing in
\* the place of code_with_lines
BuildFailedText(io, generated_code) ==
    LET text == BuildFailedEdit(io).error
    IN [text EXCEPT ![Len(text)] = CodeWithLines(generated_code)]

\* Program.cs templates with one placeholder, and the template of the reads
EditTemplates ==
    { <<"a", "\n">> \o Marker \o <<"\n", "b">>,
      Marker,
      <<"/", "/", " ", "{">> \o Marker \o <<"}", "\n">> }

ReadTemplate == ReadHead \o ReadField \o ReadTail

\* A code of n lines, each ended by a newline; line k reads 100 - k
RECURSIVE CodeOfLines(_)
CodeOfLines(n) ==
    IF n = 0 THEN <<>>
    ELSE CodeOfLines(n - 1) \o Digits(100 - n) \o <<"\n">>

\* The codes of the callers: short ones, with the placeholder or the field
\* inside, and long ones of up to MaxLines lines
Codes ==
    { <<>>, <<"x">>, Marker, <<"x">> \o Marker \o <<"\n", "y">>, ReadField,
      <<"{", "x", "}", "\n", "\n", "z">> }
    \cup { CodeOfLines(n) : n \in 1..MaxLines }

InitProgram ==
    /\ \E tool \in {EditTool, StructureTool}, code \in Codes :
        \E template \in (IF tool = EditTool THEN EditTemplates ELSE {ReadTemplate}) :
            program = [tool |-> tool, template |-> template, code |-> code,
                       phase |-> "input", full_code |-> <<>>, error |-> <<>>]
    /\ messages = <<>>
    /\ pptx_file_path = Some("/a.pptx")
    /\ node = "program"
    /\ calls = <<>>
    /\ issued = 0
    /\ merges = <<>>
    /\ finished = <<>>
    /\ reader = <<>>
    /\ bound = {}

ProgramFrame ==
    UNCHANGED <<messages, pptx_file_path, node, calls, issued, merges, finished,
                reader, bound>>

\* Program.cs of the working area is written
Materialize ==
    /\ node = "program"
    /\ program.phase = "input"
    /\ program' = [program EXCEPT
            !.phase = "written",
            !.full_code = Materialized(program.tool, program.template, program.code)]
    /\ ProgramFrame

\* dotnet build of the edit executor exits nonzero: the file is read back,
\* the area is removed and the error with the listing is returned; when the
\* removal raises, the handler of `except Exception` decides the outcome
BuildFails ==
    /\ node = "program"
    /\ program.phase = "written"
    /\ program.tool = EditTool
    /\ \E io \in ToolchainStreams :
        \E x \in CleanupThenReturn("present",
                    Failure(BuildFailedText(io, program.full_code))) :
            program' = [program EXCEPT
                !.phase = x.pc,
                !.error = IF x.pc = "returned" THEN x.result[1].error ELSE <<>>]
    /\ ProgramFrame

NextProgram == Materialize \/ BuildFails

SpecProgram == InitProgram /\ [][NextProgram]_vars

----------------------------------------------------------------------------
(* Properties *)

CallIds == 1..Len(calls)
IsEdit(c) == calls[c].tool = EditTool

\* C1: every invocation of the edit executor that returns a result (success
\* or any classified failure) has removed its working area by then.
C1_WorkingAreaGoneOnReturn ==
    \A c \in CallIds :
        (IsEdit(c) /\ calls[c].pc = "returned" /\ calls[c].result # None)
            => calls[c].dir = "gone"

C1_Witness ==
    \E c \in CallIds :
        /\ IsEdit(c) /\ calls[c].pc = "returned"
        /\ calls[c].result = Some(Failure(<<TimedOutEditText>>))
        /\ calls[c].child = "killed"
        /\ calls[c].dir = "gone"

\* C2: no exit path of an executor invocation, a raise included, leaves an
\* allocated working area on disk.
C2_NoExitLeavesWorkingArea ==
    \A c \in CallIds : Completed(calls[c]) => calls[c].dir # "present"

\* C3: no executor invocation ends by raising.
C3_NoInvocationRaises ==
    \A c \in CallIds : calls[c].pc # "raised"

\* C4: once the run's child has exited, the edit executor's result is
\* decided by the exit code alone: 0 gives success with stdout, the sentinel
\* 2 a validation rejection with stdout, any other code a runtime failure
\* with stderr, or stdout when stderr is empty.
C4_ClassifiedByExitCodeAlone ==
    \A c \in CallIds :
        (IsEdit(c) /\ calls[c].exit # None) =>
            LET code == calls[c].exit[1][1]
                out == calls[c].exit[1][2][1]
                err == calls[c].exit[1][2][2]
            IN /\ calls[c].pc = "returned"
               /\ calls[c].result = Some(
                    IF code = 0
                    THEN [success |-> TRUE, output |-> out, error |-> <<>>]
                    ELSE IF code = 2
                    THEN [success |-> FALSE, output |-> "",
                          error |-> <<ValidationPrefix, out>>]
                    ELSE [success |-> FALSE, output |-> "",
                          error |-> <<RuntimePrefix, IF err = "" THEN out ELSE err>>])

\* C5: after a run timeout no process started by the invocation is alive
\* when the call has ended.
C5_NoProcessAliveAfterTimeout ==
    \A c \in CallIds :
        (Completed(calls[c]) /\ calls[c].child = "killed")
            => calls[c].subtree # "running"

\* C6: at most one edit child process per document path is in flight (all
\* calls of a run use state.pptx_file_path).
C6_AtMostOneEditInFlight ==
    \A c, d \in CallIds :
        (IsEdit(c) /\ IsEdit(d) /\ calls[c].pc = "running" /\ calls[d].pc = "running")
            => c = d

\* A tool result in which execute_pptx_code reports a failed edit
FailedEditResult(m) ==
    /\ m.type = "tool"
    /\ m.name = EditTool
    /\ m.content[1] = "Execution failed: "

\* C7: once an edit has failed and the follow-up edit of a later turn has
\* failed too, no later turn of the decision function carries tool calls.
C7_RetryBound ==
    \A i, j, k, l \in 1..Len(messages) :
        ( /\ i < j /\ j < k /\ k < l
          /\ FailedEditResult(messages[i])
          /\ messages[j].type = "ai"
          /\ FailedEditResult(messages[k])
          /\ messages[l].type = "ai" )
        => messages[l].tool_calls = <<>>

\* C8: after a decision step the loop has terminated exactly when the latest
\* turn carries no tool calls, and is dispatching exactly when it carries some.
C8_TerminatesIffNoToolCalls ==
    /\ node = "end" =>
         /\ messages[Len(messages)].type = "ai"
         /\ messages[Len(messages)].tool_calls = <<>>
    /\ node = "tools" =>
         /\ messages[Len(messages)].type = "ai"
         /\ messages[Len(messages)].tool_calls # <<>>

C8_Witness ==
    /\ node = "end"
    /\ \E i \in 1..Len(messages) : messages[i].type = "tool"

C9_Reported ==
    \A c \in CallIds :
        (pptx_file_path = None /\ calls[c].pc # "pending") =>
            /\ calls[c].pc = "returned"
            /\ calls[c].text = <<"Error: No PowerPoint file path provided in state">>
            /\ calls[c].result = None
            /\ calls[c].dir = "none"
            /\ calls[c].child = "none"

\* C9: a tool invoked with the document path unset returns the error text,
\* does not raise, runs no executor and creates no working area; and the
\* loop leaves dispatching only for the next decision step.
C9_UnsetPathReported ==
    /\ []C9_Reported
    /\ [][node = "tools" => node' \in {"tools", "llm"}]_vars

C9_Witness ==
    \E c \in CallIds :
        /\ pptx_file_path = None
        /\ calls[c].tool = DetailsTool
        /\ calls[c].pc = "returned"
        /\ calls[c].text = <<NoPathText>>

RECURSIVE LastNonNone(_)
LastNonNone(us) ==
    IF us = <<>> THEN None
    ELSE IF us[Len(us)] # None THEN us[Len(us)]
    ELSE LastNonNone(SubSeq(us, 1, Len(us) - 1))

\* C10: after any sequence of merges the document path is the most recent
\* update that was not None, or unset if there was none.
C10_LastKnownGood ==
    pptx_file_path = LastNonNone(merges)

C10_Witness ==
    /\ Len(merges) >= 3
    /\ merges[Len(merges)] = None
    /\ merges[Len(merges) - 1] # None
    /\ merges[1] # None /\ merges[1] # merges[Len(merges) - 1]
    /\ pptx_file_path = merges[Len(merges) - 1]

\* The tool-result messages that directly follow messages[i]
RECURSIVE ResultsAfter(_, _)
ResultsAfter(msgs, i) ==
    IF i < Len(msgs) /\ msgs[i + 1].type = "tool"
    THEN <<msgs[i + 1]>> \o ResultsAfter(msgs, i + 1)
    ELSE <<>>

\* C11: the results of a turn's tool calls stand in the history in the
\* order in which the calls were proposed, whatever order they completed in.
C11_ResultsInCallOrder ==
    \A i \in 1..Len(messages) :
        (messages[i].type = "ai" /\ (i < Len(messages) \/ node = "llm")) =>
            LET tcs == messages[i].tool_calls
                res == ResultsAfter(messages, i)
            IN /\ Len(res) = Len(tcs)
               /\ \A k \in 1..Len(tcs) :
                    /\ res[k].tool_call_id = tcs[k].id
                    /\ res[k].name = tcs[k].name

C11_Witness ==
    /\ node = "llm"
    /\ Len(finished) = 2
    /\ messages[Len(messages) - 2].type = "ai"
    /\ messages[Len(messages) - 2].tool_calls[1].id = finished[2]
    /\ messages[Len(messages) - 2].tool_calls[2].id = finished[1]
    /\ messages[Len(messages) - 1].tool_call_id = finished[2]
    /\ messages[Len(messages)].tool_call_id = finished[1]

\* C12: the working areas of the invocations of a turn, finished or in
\* flight, are pairwise distinct: each invocation has an area of its own.
C12_WorkingAreaOfItsOwn ==
    \A c, d \in CallIds :
        (c # d /\ calls[c].temp_dir # None /\ calls[d].temp_dir # None)
            => calls[c].temp_dir # calls[d].temp_dir

C12_Witness ==
    /\ Len(calls) = 2
    /\ calls[1].temp_dir # None /\ calls[1].dir = "present"
    /\ calls[2].temp_dir # None /\ calls[2].dir = "present"
    /\ calls[1].pc = "running" /\ calls[2].pc = "running"

\* The steps (Restore, Build, Run) in the log of call c
StepsOf(c) ==
    SelectSeq(calls[c].log, LAMBDA e : e[1] \in {"restore", "build", "run"})

\* C13: an edit invocation runs Restore, Build, Run in this order and each at
\* most once; Build only after Restore exited 0, Run only after Build exited
\* 0; after a Restore or Build that exited non-zero only cleanup follows.
C13_StepsInOrder ==
    \A c \in CallIds : (IsEdit(c) /\ node = "direct") =>
        LET st == StepsOf(c)
            log == calls[c].log
        IN /\ Len(st) <= 3
           /\ Len(st) >= 1 => st[1][1] = "restore"
           /\ Len(st) >= 2 => st[1] = Event("restore", "exit 0") /\ st[2][1] = "build"
           /\ Len(st) = 3 => st[2] = Event("build", "exit 0") /\ st[3][1] = "run"
           /\ calls[c].pc = "build" => st = <<Event("restore", "exit 0")>>
           /\ calls[c].pc \in {"run", "running"} =>
                st = <<Event("restore", "exit 0"), Event("build", "exit 0")>>
           /\ \A i \in 1..Len(log) :
                (log[i][1] \in {"restore", "build"} /\ log[i][2] = "exit nonzero") =>
                    /\ Completed(calls[c])
                    /\ i < Len(log)
                    /\ \A j \in (i + 1)..Len(log) : log[j][1] = "rmtree"

C13_Witness ==
    \E c \in CallIds :
        /\ IsEdit(c) /\ node = "direct"
        /\ calls[c].log = <<Event("restore", "exit 0"), Event("build", "exit nonzero"),
                            Event("rmtree", "ok")>>
        /\ calls[c].pc = "returned"

C15_TimeoutEndsWithTimedOut ==
    \A c \in CallIds :
        calls[c].child = "killed" =>
            /\ calls[c].pc = "returned"
            /\ calls[c].result = Some(Failure(<<TimedOutText(calls[c].tool)>>))

\* C16: an executor invocation that has begun eventually ends: none of its
\* steps waits on a process for ever.
C16_InvocationEnds ==
    (calls[1].pc = "prepare") ~> Completed(calls[1])

C16_Witness ==
    /\ node = "direct"
    /\ calls[1].pc = "returned"
    /\ calls[1].child = "killed"
    /\ calls[1].subtree = "running"
    /\ calls[1].log = <<Event("restore", "exit 0"), Event("build", "exit 0"),
                        Event("run", "timeout"), Event("rmtree", "ok")>>

\* The number of rmtree calls in the log of call c
Removals(c) == Len(SelectSeq(calls[c].log, LAMBDA e : e[1] = "rmtree"))

\* C17: an executor invocation that has ended, on whichever branch, has
\* executed the removal of its working area exactly once.
C17_RemovalExactlyOnce ==
    \A c \in CallIds :
        (node = "direct" /\ Completed(calls[c]) /\ calls[c].temp_dir # None)
            => Removals(c) = 1

\* The result the invocation of call c returns when its cleanup meets no
\* obstacle: the classification of the child's exit, or the timed-out text
ExpectedOutcome(c) ==
    IF calls[c].exit # None
    THEN IF IsEdit(c)
         THEN ClassifyEdit(calls[c].exit[1][1], calls[c].exit[1][2])
         ELSE ClassifyRead(calls[c].exit[1][1], calls[c].exit[1][2])
    ELSE Failure(<<TimedOutText(calls[c].tool)>>)

\* C18: an invocation whose cleanup found the working area absent returns
\* the outcome it would have returned with the area present: the
\* classification of its run, or the timed-out result.
C18_AbsentAreaSameOutcome ==
    \A c \in CallIds :
        ( /\ node = "direct" /\ Completed(calls[c])
          /\ \E i \in 1..Len(calls[c].log) :
                /\ calls[c].log[i] = Event("rmtree", "absent")
                /\ i > 1
                /\ calls[c].log[i - 1] \in {Event("run", "exited"), Event("run", "timeout")} )
        => /\ calls[c].pc = "returned"
           /\ calls[c].result = Some(ExpectedOutcome(c))

IsRuntimeFailed(res) == ~res.success /\ res.error[1] = RuntimePrefix
IsTimedOut(res) == ~res.success /\ res.error \in {<<TimedOutEditText>>, <<TimedOutReadText>>}

\* C19: the result of an invocation whose run timed out is not a
\* runtime-failure result, and the result of an invocation whose child
\* exited non-zero is not a timed-out result, for both executors.
C19_TimedOutDistinct ==
    \A c \in CallIds :
        (node = "direct" /\ calls[c].result # None) =>
            LET res == calls[c].result[1]
            IN /\ calls[c].child = "killed" => (IsTimedOut(res) /\ ~IsRuntimeFailed(res))
               /\ (calls[c].exit # None /\ calls[c].exit[1][1] # 0) => ~IsTimedOut(res)
               /\ ~(IsTimedOut(res) /\ IsRuntimeFailed(res))

C19_Witness ==
    \E c \in CallIds :
        /\ node = "direct"
        /\ calls[c].tool = StructureTool
        /\ calls[c].child = "killed"
        /\ calls[c].result = Some(Failure(<<TimedOutReadText>>))

\* C20: with a document path set, an ended execute_pptx_code call has
\* returned one text: the success text with the output when the executor
\* reported success, the failure text with the executor's error otherwise.
C20_EditToolReturnsText ==
    \A c \in CallIds :
        (node = "direct" /\ IsEdit(c) /\ Truthy(pptx_file_path) /\ Completed(calls[c]))
            => /\ calls[c].pc = "returned"
               /\ calls[c].result # None
               /\ calls[c].text =
                    IF calls[c].result[1].success
                    THEN <<"Code executed successfully. Output: ", calls[c].result[1].output>>
                    ELSE <<"Execution failed: ">> \o calls[c].result[1].error

IsPrefix(s, t) == Len(s) <= Len(t) /\ \A i \in 1..Len(s) : t[i] = s[i]

\* C21: in every step the history before the step is a prefix of the
\* history after it: turns are appended, never removed, reordered or
\* rewritten.
C21_HistoryOnlyGrows == [][IsPrefix(messages, messages')]_vars

C21_Witness ==
    /\ node = "end"
    /\ Len(messages) = 4
    /\ messages[1].type = "human"
    /\ messages[2].type = "ai" /\ messages[2].tool_calls # <<>>
    /\ messages[3].type = "tool"
    /\ messages[4].type = "ai"
    /\ \A i, j \in 1..4 : i # j => messages[i].id # messages[j].id

\* C24: parsing the anchor produced by encode gives back the container
\* index, the kind and the local index, and the digest of the content.
C24_ParseInvertsEncode ==
    (node = "codec" /\ reader.phase = "done") =>
        reader.parsed = [ok |-> TRUE, containerIndex |-> reader.i,
                         kind |-> reader.kind, localIndex |-> reader.j,
                         digest |-> reader.hash[Trim(reader.c1)]]

C24_Witness ==
    /\ node = "codec" /\ reader.phase = "done"
    /\ reader.i = 10 /\ reader.j = 0 /\ reader.kind = Bullet
    /\ reader.a1 = <<"s", "l", "i", "d", "e", "1", "0", "_",
                     "b", "u", "l", "l", "e", "t", "0", "_",
                     "a", "b", "c", "1", "2", "3">>
    /\ reader.parsed.ok

NoDuplicates(seq) == \A m, n \in 1..Len(seq) : m # n => seq[m] # seq[n]

AtAddress(a) ==
    LET p == Parse(a)
    IN IF ~p.ok \/ p.containerIndex \notin 1..Len(reader.doc) THEN {}
       ELSE LET els == Flatten(Snapshots(reader.hash, p.containerIndex,
                                         reader.doc[p.containerIndex]))
            IN {els[k] : k \in {n \in 1..Len(els) :
                    /\ els[n].kind = p.kind
                    /\ Parse(els[n].anchor).localIndex = p.localIndex}}

InLoop == node \in {"llm", "tools", "end"}

\* C28: the loop starts awaiting a decision with the opening user turn in
\* the history; its only transitions are llm to tools, llm to end and tools
\* to llm; tools are not dispatched before the first decision and no step
\* follows the end.
C28_LoopTransitions ==
    /\ InLoop => (node = "llm" /\ Len(messages) = 1 /\ messages[1].type = "human")
    /\ [](InLoop /\ calls # <<>> => \E i \in 1..Len(messages) : messages[i].type = "ai")
    /\ [][InLoop =>
            /\ node # "end"
            /\ node' # node => <<node, node'>> \in
                    { <<"llm", "tools">>, <<"llm", "end">>, <<"tools", "llm">> }]_vars

C28_Witness ==
    /\ node = "end"
    /\ Len(messages) = 5
    /\ messages[1].type = "human"
    /\ messages[2].type = "ai" /\ Len(messages[2].tool_calls) = 2
    /\ messages[5].type = "ai" /\ messages[5].tool_calls = <<>>

\* The tool-result messages of msgs that answer the call id
AnswersTo(msgs, id) ==
    {j \in 1..Len(msgs) : msgs[j].type = "tool" /\ msgs[j].tool_call_id = id}

\* C29: the decision function is not invoked again until every tool call
\* of the previous turn has completed, and when it is invoked each call
\* proposed so far has exactly one tool-result message in the history.
C29_DecisionAfterAllResults ==
    /\ [](node = "llm" =>
            /\ calls = <<>>
            /\ \A i \in 1..Len(messages) :
                \A k \in 1..Len(messages[i].tool_calls) :
                    Cardinality(AnswersTo(messages, messages[i].tool_calls[k].id)) = 1)
    /\ [][(node = "tools" /\ node' = "llm") =>
            \A c \in 1..Len(calls) : calls[c].pc \in {"returned", "raised"}]_vars

C29_Witness ==
    /\ node = "llm"
    /\ Len(messages) = 4
    /\ Len(messages[2].tool_calls) = 2
    /\ messages[3].tool_call_id = messages[2].tool_calls[1].id
    /\ messages[4].tool_call_id = messages[2].tool_calls[2].id
    /\ messages[3].content = ToolErrorText

\* C30: when every decision call returns and the decision function
\* eventually proposes no tool calls, the loop reaches its end; it does not
\* stay in the node tools, also when a call fails, is rejected or times out.
C30_LoopReachesTerminal ==
    /\ (node = "tools") ~> (node = "llm")
    /\ <>(node = "end")

C30_Witness ==
    /\ node = "end"
    /\ \E i \in 1..Len(messages) :
        messages[i].type = "tool" /\ messages[i].content = ToolErrorText
    /\ \E i \in 1..Len(messages) :
        /\ messages[i].type = "tool"
        /\ messages[i].content = <<"Execution failed: ", TimedOutEditText>>
    /\ \E i \in 1..Len(messages) :
        /\ messages[i].type = "tool"
        /\ messages[i].content = <<"Execution failed: ", ValidationPrefix, "out">>

\* The steps restore and build of call c that exited non-zero
FailedToolchainSteps(c) ==
    {i \in 1..Len(calls[c].log) :
        /\ calls[c].log[i][1] \in {"restore", "build"}
        /\ calls[c].log[i][2] = "exit nonzero"}

Contains(text, part) == \E k \in 1..Len(text) : text[k] = part

\* C31: an invocation, edit or read, whose restore or build exited non-zero
\* has returned an error that contains what the step wrote to stdout and
\* what it wrote to stderr.
C31_ToolchainDiagnosticsInFull ==
    \A c \in CallIds :
        (node = "direct" /\ Completed(calls[c]) /\ FailedToolchainSteps(c) # {}) =>
            /\ calls[c].pc = "returned"
            /\ calls[c].result # None
            /\ \E io \in ToolchainStreams :
                /\ Contains(calls[c].result[1].error, io[1])
                /\ Contains(calls[c].result[1].error, io[2])

\* C34: the timeout of the run step of a read invocation is strictly smaller
\* than the timeout of the run step of an edit invocation.
C34_ReadTimeoutSmaller ==
    \A c \in CallIds :
        (~IsEdit(c) /\ calls[c].pc = "running") =>
            Timeout(calls[c].tool, "run")[1] < Timeout(EditTool, "run")[1]

\* C34, amended: the timeout of the run step of a read invocation is not
\* larger than the timeout of the run step of an edit invocation.
C34_ReadTimeoutNotLarger ==
    \A c \in CallIds :
        (~IsEdit(c) /\ calls[c].pc = "running") =>
            /\ Timeout(calls[c].tool, "run") # None
            /\ Timeout(calls[c].tool, "run")[1] <= Timeout(EditTool, "run")[1]

C34_Witness ==
    \E c \in CallIds :
        /\ node = "direct"
        /\ calls[c].tool = DetailsTool
        /\ calls[c].pc = "running"
        /\ calls[c].child = "running"
        /\ calls[c].log = <<Event("build", "exit 0")>>

\* C35: an edit invocation that returned Success has executed restore, build
\* and run, each once, and each exited with code 0.
C35_SuccessOnlyAfterAllSteps ==
    \A c \in CallIds :
        ( /\ node = "direct" /\ IsEdit(c)
          /\ calls[c].result # None /\ calls[c].result[1].success ) =>
            /\ StepsOf(c) = <<Event("restore", "exit 0"), Event("build", "exit 0"),
                              Event("run", "exited")>>
            /\ calls[c].exit # None
            /\ calls[c].exit[1][1] = 0

C35_Witness ==
    \E c \in CallIds :
        /\ node = "direct" /\ IsEdit(c)
        /\ calls[c].pc = "returned"
        /\ calls[c].result = Some(Success("out"))
        /\ calls[c].exit = Some(<<0, <<"out", "err">>>>)

\* C36: an edit invocation whose restore or build ran into its timeout has
\* returned the timed-out result of a run timeout, has executed no later
\* step and has removed its working area.
C36_ToolchainTimeoutLikeRunTimeout ==
    \A c \in CallIds :
        (node = "direct" /\ IsEdit(c)) =>
            \A i \in 1..Len(calls[c].log) :
                (calls[c].log[i] \in {Event("restore", "timeout"),
                                      Event("build", "timeout")}) =>
                    /\ calls[c].pc = "returned"
                    /\ calls[c].result = Some(Failure(<<TimedOutEditText>>))
                    /\ \A j \in (i + 1)..Len(calls[c].log) : calls[c].log[j][1] = "rmtree"
                    /\ calls[c].dir = "gone"

----------------------------------------------------------------------------
(* The document path inside the loop *)

\* C37: inside the loop the document path is, at every state (the terminal
\* one included), the path the run was started with: no decision step and
\* no tool call changes it.
C37_PathFixedInLoop ==
    InLoop => pptx_file_path = preserve_value(None, merges[1])

\* A run that ended after a decision step, two tool calls and a second
\* decision step, with the path it was started with
C37_Witness ==
    /\ node = "end"
    /\ pptx_file_path = Some("/a.pptx")
    /\ Len(messages) = 5
    /\ messages[3].type = "tool" /\ messages[4].type = "tool"

\* C38: once a decision step has run, the tools it bound are the three tools
\* when the document path holds a path and none when it holds no path (None
\* or the empty string); tool calls exist only when the tools were bound.
C38_ToolsOfferedIffPathSet ==
    (InLoop /\ Len(messages) >= 2) =>
        /\ bound = (IF pptx_file_path \in {None, Some("")} THEN {} ELSE Tools)
        /\ \A k \in 1..Len(messages) :
              (messages[k].type = "ai" /\ messages[k].tool_calls # <<>>)
                  => bound = Tools

\* A decision step without a path bound nothing and ended the run
C38_Witness ==
    /\ node = "end"
    /\ pptx_file_path = None
    /\ bound = {}
    /\ Len(messages) = 2
    /\ messages[2].type = "ai" /\ messages[2].tool_calls = <<>>

\* C39: whenever the field holds a value written by a merge (any update
\* other than None, the empty string included), the precondition check of
\* the tools passes.
C39_MergeAndToolsAgree ==
    pptx_file_path # None => ToolPrecondition(pptx_file_path)

\* C40: a read call never has its child process in flight while the child
\* process of an edit call of the same turn (the same document path) is in
\* flight.
C40_NoReadDuringEdit ==
    \A c, d \in CallIds :
        (IsEdit(c) /\ ~IsEdit(d) /\ calls[c].pc = "running")
            => calls[d].pc # "running"

----------------------------------------------------------------------------
(* The program text *)

\* C32: for a template with exactly one marker, the materialized program is
\* the template with the marker replaced by the caller's code, character for
\* character, also when the code contains the marker; the text before and
\* after the marker is the template's.
C32_MaterializedVerbatim ==
    (node = "program" /\ program.phase # "input") =>
        LET marker == IF program.tool = EditTool THEN Marker ELSE ReadField
            at == Occurrences(program.template, marker)
        IN Cardinality(at) = 1 =>
            LET k == CHOOSE n \in at : TRUE
            IN program.full_code =
                  SubSeq(program.template, 1, k - 1)
                  \o program.code
                  \o SubSeq(program.template, k + Len(marker), Len(program.template))

\* A code that contains the marker was put into a template of the edits
C32_Witness ==
    /\ node = "program"
    /\ program.phase = "written"
    /\ program.tool = EditTool
    /\ program.code = <<"x">> \o Marker \o <<"\n", "y">>
    /\ program.template = <<"a", "\n">> \o Marker \o <<"\n", "b">>
    /\ Cardinality(Occurrences(program.full_code, Marker)) = 1

\* The executor returned the error of a failed build
BuildFailedReturned ==
    /\ node = "program"
    /\ program.phase = "returned"
    /\ program.error[1] = BuildFailedEditPrefix

\* C33: the error of a failed build ends with the listing of the generated
\* source: for a source of n lines it has min(n, 50) entries and entry k is
\* the number k (counted from 1), ": " and line k.
C33_ListingNumberedAndLimited ==
    BuildFailedReturned =>
        LET source == program.full_code
            n == Cardinality({k \in 1..Len(source) : source[k] = "\n"}) + 1
            lines == Split(source, "\n")
            entries == Split(program.error[Len(program.error)], "\n")
        IN /\ Len(lines) = n
           /\ Len(entries) = (IF n < ListingLimit THEN n ELSE ListingLimit)
           /\ \A k \in 1..Len(entries) :
                 entries[k] = Digits(k) \o <<":", " ">> \o lines[k]

\* A source of more than 50 lines was listed up to its line 50
C33_Witness ==
    /\ BuildFailedReturned
    /\ Len(Split(program.full_code, "\n")) > ListingLimit
    /\ Len(Split(program.error[Len(program.error)], "\n")) = ListingLimit

====
